---- MODULE Spec2Model ----
(***************************************************************************)
(* Story_Forge: the request pipeline of generator/views.py                 *)
(* (GenerateStoryView.post and the helpers it calls), the StoryGeneration  *)
(* model of generator/models.py, and the two generators it drives          *)
(* (OllamaStoryGenerator, GPUImageGenerator).                              *)
(*                                                                         *)
(* Text the user types (prompt, transcript) is a sequence of characters,   *)
(* so that str.strip() and str.split() are computed.  Text a generator     *)
(* returns is a record [src, words]: where it came from and how many       *)
(* whitespace-separated words it has; a stripped string is empty exactly   *)
(* when it has no word.  Messages are sequences of string pieces, the      *)
(* pieces of the f-string that builds them.                                *)
(*                                                                         *)
(* The services the code guards against fail in every way the code         *)
(* handles: Ollama (tags and chat requests), the diffusion pipeline (no    *)
(* GPU, loading, running), the audio libraries and the transcription.  The *)
(* database and the file storage are taken to work, except that an INSERT  *)
(* of an id the table already holds is refused.                            *)
(***************************************************************************)
EXTENDS Integers, Sequences, FiniteSets, TLC

(* ---------------------------------------------------------------- bounds *)
NumHandlers == 2
MaxPromptLen == 2

(* ------------------------------------------------------------- constants *)
MAX_AUDIO_BYTES == 10 * 1024 * 1024
StoryMinWords == 100
FallbackStoryBase == 206

Handlers == 1 .. NumHandlers
Ids == 1 .. NumHandlers
NoId == 0

Chars == {" ", "a"}
Whitespace == {" "}

SeqsUpTo(S, n) == UNION {[1 .. k -> S] : k \in 0 .. n}

(* ------------------------------------------------------- string helpers *)
RECURSIVE LStrip(_)
LStrip(s) ==
    IF s = <<>> THEN <<>>
    ELSE IF Head(s) \in Whitespace THEN LStrip(Tail(s)) ELSE s

RECURSIVE RStrip(_)
RStrip(s) ==
    IF s = <<>> THEN <<>>
    ELSE IF s[Len(s)] \in Whitespace THEN RStrip(SubSeq(s, 1, Len(s) - 1)) ELSE s

Strip(s) == RStrip(LStrip(s))

(* len(s.split()): the number of maximal runs of non-whitespace *)
RECURSIVE WordCount(_)
WordCount(s) ==
    IF s = <<>> THEN 0
    ELSE IF Head(s) \in Whitespace THEN WordCount(Tail(s))
    ELSE IF Len(s) = 1 \/ s[2] \in Whitespace THEN 1 + WordCount(Tail(s))
    ELSE WordCount(Tail(s))

Truthy(s) == s # <<>>

(* -------------------------------------------------------- generated text *)
EmptyText == [src |-> "none", words |-> 0]
Text(src, n) == IF n = 0 THEN EmptyText ELSE [src |-> src, words |-> n]
NonEmptyText(t) == t.words > 0

(* ------------------------------------------------ OllamaStoryGenerator *)
(* GET /api/tags: the request raises, answers another status than 200,   *)
(* or lists models with or without the story model among them.            *)
TagsOutcomes == {"raise", "status", "no_model", "has_model"}

CheckOllamaAvailability(o) == o = "has_model"

(* POST /api/chat: the request (or decoding its reply) raises, answers    *)
(* another status than 200, or answers 200 with a content of n words.     *)
ReplyWords == {0, StoryMinWords, StoryMinWords + 1}
ChatOutcomes ==
    {[kind |-> "raise", words |-> 0], [kind |-> "status", words |-> 0]}
    \cup {[kind |-> "ok", words |-> n] : n \in ReplyWords}

(* _call_ollama: one chat request; the stripped content, or "" *)
CallOllama(o) == IF o.kind = "ok" THEN Text("llm", o.words) ELSE EmptyText

FallbackStory(prompt) ==
    LET w == WordCount(prompt)
    IN  Text("fallback", FallbackStoryBase + (IF w = 0 THEN 1 ELSE 2 * w))

(* The keyword classes of _fallback_character_description and            *)
(* _fallback_scene_description, with the word count of each template.     *)
CharacterTemplates == [knight |-> 27, wizard |-> 23, space |-> 16, adventurer |-> 20]
SceneTemplates == [forest |-> 17, castle |-> 20, space |-> 17, landscape |-> 19]

(* Which template a story can select.  The fallback story always holds    *)
(* "magic" and "started" and, over Chars, none of the earlier keywords;   *)
(* a story the model wrote can hold any of them.                          *)
CharacterKeywords(story) ==
    IF story.src = "fallback" THEN {"wizard"} ELSE DOMAIN CharacterTemplates
SceneKeywords(story) ==
    IF story.src = "fallback" THEN {"space"} ELSE DOMAIN SceneTemplates

FallbackCharacterDescription(kw) == Text("fallback", CharacterTemplates[kw])
FallbackSceneDescription(kw) == Text("fallback", SceneTemplates[kw])

(* The result of a generator call: the value returned, whether the call   *)
(* raised instead, and the requests it sent (chat requests, or runs of    *)
(* the diffusion pipeline).                                               *)
Returned(v, n) == [raised |-> FALSE, val |-> v, sent |-> n]
Raised(n) == [raised |-> TRUE, val |-> EmptyText, sent |-> n]

(* generate_story whose except clause lets the failure out *)
GenerateStoryReraise(available, o, user_prompt) ==
    IF ~available THEN Returned(FallbackStory(user_prompt), 0)
    ELSE IF o.kind = "raise" THEN Raised(1)
    ELSE LET story == CallOllama(o)
         IN  IF NonEmptyText(story) /\ story.words > StoryMinWords
             THEN Returned(story, 1)
             ELSE Returned(FallbackStory(user_prompt), 1)

GenerateStory(available, o, user_prompt) ==
    IF ~available THEN Returned(FallbackStory(user_prompt), 0)
    ELSE LET story == CallOllama(o)
         IN  IF NonEmptyText(story) /\ story.words > StoryMinWords
             THEN Returned(story, 1)
             ELSE Returned(FallbackStory(user_prompt), 1)

(* generate_character_description returning the reply as it is *)
GenerateCharacterDescriptionNoFallback(available, o, kw) ==
    IF ~available THEN Returned(FallbackCharacterDescription(kw), 0)
    ELSE Returned(CallOllama(o), 1)

GenerateCharacterDescription(available, o, kw) ==
    IF ~available THEN Returned(FallbackCharacterDescription(kw), 0)
    ELSE LET description == CallOllama(o)
         IN  IF NonEmptyText(description)
             THEN Returned(description, 1)
             ELSE Returned(FallbackCharacterDescription(kw), 1)

(* generate_scene_description asking a second time after an empty reply *)
GenerateSceneDescriptionRetry(available, o, kw) ==
    IF ~available THEN Returned(FallbackSceneDescription(kw), 0)
    ELSE LET description == CallOllama(o)
         IN  IF NonEmptyText(description)
             THEN Returned(description, 1)
             ELSE Returned(FallbackSceneDescription(kw), 2)

GenerateSceneDescription(available, o, kw) ==
    IF ~available THEN Returned(FallbackSceneDescription(kw), 0)
    ELSE LET description == CallOllama(o)
         IN  IF NonEmptyText(description)
             THEN Returned(description, 1)
             ELSE Returned(FallbackSceneDescription(kw), 1)

(* ---------------------------------------------------- GPUImageGenerator *)
(* from_pretrained and the scheduler set-up succeed ("ok"), from_pretrained *)
(* raises ("fail": self.pipeline stays None), or the set-up raises after    *)
(* self.pipeline was assigned ("fail_configured").                          *)
LoadOutcomes == {"ok", "fail", "fail_configured"}
RunOutcomes == {"ok", "raise"}
ComposeOutcomes == {"ok", "raise"}
NoImage == ""

(* _load_pipeline: [ok, pipeline], pipeline = self.pipeline is not None *)
LoadPipeline(available, pipeline, o) ==
    IF ~available THEN [ok |-> FALSE, pipeline |-> pipeline]
    ELSE IF pipeline THEN [ok |-> TRUE, pipeline |-> TRUE]
    ELSE [ok |-> o = "ok", pipeline |-> o # "fail"]

(* the image generation without its try/except around the diffusion run *)
GenerateImageReraise(available, loaded, run, generated, placeholder) ==
    IF available /\ loaded
    THEN IF run = "ok" THEN [raised |-> FALSE, val |-> generated, sent |-> 1]
         ELSE [raised |-> TRUE, val |-> NoImage, sent |-> 1]
    ELSE [raised |-> FALSE, val |-> placeholder, sent |-> 0]

GenerateImage(available, loaded, run, generated, placeholder) ==
    IF available /\ loaded
    THEN IF run = "ok" THEN [raised |-> FALSE, val |-> generated, sent |-> 1]
         ELSE [raised |-> FALSE, val |-> placeholder, sent |-> 1]
    ELSE [raised |-> FALSE, val |-> placeholder, sent |-> 0]

GenerateCharacterImage(available, loaded, run) ==
    GenerateImage(available, loaded, run, "gpu_character", "character_placeholder")

GenerateBackgroundImage(available, loaded, run) ==
    GenerateImage(available, loaded, run, "gpu_background", "background_placeholder")

ComposeImages(o) == IF o = "ok" THEN "composed" ELSE "composed_placeholder"

(* ------------------------------------------------------ StoryGeneration *)
NoAudio == [present |-> FALSE, size |-> 0]
AudioFile(n) == [present |-> TRUE, size |-> n]
NoMessage == <<>>

(* StoryGeneration.objects.create(prompt, input_method, status='pending'), *)
(* the other fields at their defaults                                      *)
NewStory(id, prompt, input_method) ==
    [id |-> id, prompt |-> prompt, input_method |-> input_method,
     status |-> "pending", audio_file |-> FALSE, transcribed_text |-> <<>>,
     story_text |-> EmptyText, character_description |-> EmptyText,
     background_description |-> EmptyText, character_image |-> NoImage,
     background_image |-> NoImage, composed_image |-> NoImage,
     story_word_count |-> 0, ai_model_used |-> <<>>, image_model_used |-> <<>>,
     generation_time |-> "None", error_message |-> NoMessage]

(* a row that does not exist, and a handler that holds no object yet *)
NoStory == [NewStory(NoId, <<>>, "text") EXCEPT !.status = "absent"]

(* get_input_text joining prompt and transcript without the strip *)
GetInputTextUnstripped(s) ==
    IF s.input_method = "audio" THEN s.transcribed_text
    ELSE IF s.input_method = "both"
         THEN s.prompt \o <<" ">> \o s.transcribed_text
         ELSE s.prompt

GetInputText(s) ==
    IF s.input_method = "audio" THEN s.transcribed_text
    ELSE IF s.input_method = "both"
         THEN Strip(s.prompt \o <<" ">> \o s.transcribed_text)
         ELSE s.prompt

(* StoryGeneration.save: the word count, then the row is written *)
(* save without the word count *)
ModelSaveKeepCount(s) == s

ModelSave(s) ==
    IF NonEmptyText(s.story_text)
    THEN [s EXCEPT !.story_word_count = s.story_text.words]
    ELSE s

(* a write whose WHERE clause names the first row *)
DbWriteFirstRow(d, s) == [d EXCEPT ![1] = s]

(* the UPDATE (or INSERT) of the row whose primary key is the object's id *)
DbWrite(d, s) == [d EXCEPT ![s.id] = s]

(* ------------------------------------------------------------- views.py *)
(* the prompt taken as typed *)
CleanPromptUnstripped(raw) == raw

CleanPrompt(raw) == Strip(raw)

HasInput(prompt, audio_file) == Truthy(prompt) \/ audio_file.present

(* an audio file decides alone *)
InputMethodAudioFirst(prompt, audio_file) ==
    IF audio_file.present THEN "audio" ELSE "text"

InputMethod(prompt, audio_file) ==
    IF Truthy(prompt) /\ ~audio_file.present THEN "text"
    ELSE IF audio_file.present /\ ~Truthy(prompt) THEN "audio"
    ELSE "both"

(* the check of input_text that lets every text through *)
NoInputTextNever(input_text) == FALSE

(* if not input_text *)
NoInputText(input_text) == ~Truthy(input_text)

(* the size check with >= *)
AudioTooLargeInclusive(size) == size >= MAX_AUDIO_BYTES

AudioTooLarge(size) == size > MAX_AUDIO_BYTES

(* whisper first, then speech_recognition; the exception of the second    *)
(* propagates                                                             *)
SafeTranscribeAudio(o) ==
    IF o.whisper \/ o.google
    THEN [raised |-> FALSE, val |-> o.text]
    ELSE [raised |-> TRUE, val |-> <<>>]

(* the except clause storing str(e) alone *)
AudioFailedBare(s, e) ==
    [s EXCEPT !.status = "error", !.error_message = <<e>>]

(* the except clause of _handle_audio_input *)
AudioFailed(s, e) ==
    [s EXCEPT !.status = "error",
              !.error_message = <<"Audio transcription failed: ", e>>]

(* the except clause of _generate_enhanced_story_content *)
GenerationFailed(s, e) ==
    [s EXCEPT !.status = "error", !.error_message = <<e>>]

(* the statements of _generate_enhanced_story_content in program order *)
PipelineOrder ==
    <<"begin", "generate_story", "generate_character_description",
      "generate_scene_description", "generate_character_image",
      "generate_background_image", "compose_images", "completed">>

RECURSIVE IndexOf(_, _)
IndexOf(seq, x) ==
    IF seq = <<>> THEN 1
    ELSE IF Head(seq) = x THEN 1 ELSE 1 + IndexOf(Tail(seq), x)

(* the two description calls in the other order *)
StepAfterSwapped(step) ==
    IF step = "generate_story" THEN "generate_scene_description"
    ELSE IF step = "generate_scene_description" THEN "generate_character_description"
    ELSE IF step = "generate_character_description" THEN "generate_character_image"
    ELSE PipelineOrder[IndexOf(PipelineOrder, step) + 1]

(* the statement that runs once `step` has returned *)
StepAfter(step) == PipelineOrder[IndexOf(PipelineOrder, step) + 1]

IndexPage == [to |-> "index", story_id |-> NoId]
ResultPage(id) == [to |-> "result", story_id |-> id]
NoRedirect == [to |-> "none", story_id |-> NoId]

(* post redirecting to the result page whatever the status *)
RedirectAlwaysResult(s) == ResultPage(s.id)

(* the end of post: where it redirects once the pipeline has returned *)
RedirectAfterGeneration(s) ==
    IF s.status = "error" THEN IndexPage ELSE ResultPage(s.id)

MessageAfterGeneration(s) ==
    IF s.status = "error"
    THEN <<"error", "Generation error: ">> \o s.error_message
    ELSE <<"success", "Enhanced story generated with Ollama + GPU!">>

(* ------------------------------------------------------ read-only views *)
RecentLimit == 6

NoPage == [view |-> "none"]

(* StoryGeneration.objects.filter(status='completed')[:6]: the results the *)
(* query can give, as sets of ids.  The rows carry no created_at here, so  *)
(* when more than RecentLimit rows qualify any RecentLimit of them can be  *)
(* the newest.                                                             *)
RecentStories(d) ==
    LET completed == {i \in DOMAIN d : d[i] # NoStory /\ d[i].status = "completed"}
    IN  IF Cardinality(completed) <= RecentLimit
        THEN {completed}
        ELSE {R \in SUBSET completed : Cardinality(R) = RecentLimit}

(* IndexView.get_context_data that does not flag the missing table *)
IndexContextNoFlag(exists, recent) ==
    [recent_stories |-> IF exists THEN recent ELSE {}, database_not_ready |-> FALSE]

(* IndexView.get_context_data: recent_stories, and database_not_ready, a   *)
(* key only the else branch sets.  The capability reports and the style    *)
(* list of the context do not depend on the table and are left out.        *)
IndexContext(exists, recent) ==
    IF exists
    THEN [recent_stories |-> recent, database_not_ready |-> FALSE]
    ELSE [recent_stories |-> {}, database_not_ready |-> TRUE]

(* StoryResultView.get_context_data: None (NoStory) without the table, or  *)
(* when get_object_or_404 raises, which the bare except catches            *)
ResultContext(exists, d, story_id) ==
    IF ~exists THEN [story |-> NoStory]
    ELSE IF d[story_id] = NoStory THEN [story |-> NoStory]
    ELSE [story |-> d[story_id],
          story_stats |-> [word_count |-> d[story_id].story_word_count,
                           generation_time |-> d[story_id].generation_time,
                           input_method |-> d[story_id].input_method,
                           ai_model |-> d[story_id].ai_model_used,
                           image_model |-> d[story_id].image_model_used]]

(* GenerationStatusView.get calling a failed record completed as well *)
StatusResponseFinished(exists, d, story_id) ==
    IF ~exists THEN [code |-> 500, json |-> [error |-> "no such table"]]
    ELSE IF d[story_id] = NoStory
    THEN [code |-> 500, json |-> [error |-> "No StoryGeneration matches the given query."]]
    ELSE [code |-> 200,
          json |-> [status |-> d[story_id].status,
                    completed |-> d[story_id].status \in {"completed", "error"},
                    generation_time |-> d[story_id].generation_time,
                    word_count |-> d[story_id].story_word_count]]

(* GenerationStatusView.get: the JSON of the row, or, when the query       *)
(* raises (no table, no row: Http404 is an Exception), the error with 500  *)
StatusResponse(exists, d, story_id) ==
    IF ~exists THEN [code |-> 500, json |-> [error |-> "no such table"]]
    ELSE IF d[story_id] = NoStory
    THEN [code |-> 500, json |-> [error |-> "No StoryGeneration matches the given query."]]
    ELSE [code |-> 200,
          json |-> [status |-> d[story_id].status,
                    completed |-> d[story_id].status = "completed",
                    generation_time |-> d[story_id].generation_time,
                    word_count |-> d[story_id].story_word_count]]

(* ---------------------------------------------------------------- state *)
VARIABLES
    tableExists,    \* the generator_storygeneration table exists
    GPU_AVAILABLE,  \* gpu_image_generator.GPU_AVAILABLE, set at import
    db,             \* the table: id -> row (NoStory where there is none)
    pc,             \* where each request handler stands
    req,            \* the request a handler serves: request.POST, request.FILES
    story,          \* the StoryGeneration object a handler holds in memory
    gen,            \* the locals of the pipeline: input_text, the generators a
                    \* handler built, and a pending exception
    log,            \* history: the calls a handler made, each with the requests
                    \* it sent and whether its service failed it; the statuses saved
    resp,           \* the messages queued and the redirect returned
    page            \* what the last GET of a read-only view answered

vars == <<tableExists, GPU_AVAILABLE, db, pc, req, story, gen, log, resp, page>>

NoRequest == [prompt |-> <<>>, audio_file |-> NoAudio, image_style |-> ""]
NoGenerators == [input_text |-> <<>>, available |-> FALSE, pipeline |-> FALSE, exc |-> ""]
EmptyLog == [calls |-> <<>>, saved |-> <<>>]
NoResponse == [redirect |-> NoRedirect, messages |-> <<>>]

(* What a text-only request leaves on a host without Ollama and GPU. *)
PriorStory ==
    [NewStory(1, <<"a">>, "text") EXCEPT
        !.status = "completed",
        !.story_text = FallbackStory(<<"a">>),
        !.character_description = FallbackCharacterDescription("wizard"),
        !.background_description = FallbackSceneDescription("space"),
        !.character_image = "character_placeholder",
        !.background_image = "background_placeholder",
        !.composed_image = "composed",
        !.story_word_count = FallbackStory(<<"a">>).words,
        !.ai_model_used = <<"Ollama (", "llama3.1:8b", ")">>,
        !.image_model_used = <<"Stable Diffusion (", "realistic", ")">>,
        !.generation_time = "elapsed"]

EmptyTable == [i \in Ids |-> NoStory]

InitHandlers ==
    /\ pc = [h \in Handlers |-> "idle"]
    /\ req = [h \in Handlers |-> NoRequest]
    /\ story = [h \in Handlers |-> NoStory]
    /\ gen = [h \in Handlers |-> NoGenerators]
    /\ log = [h \in Handlers |-> EmptyLog]
    /\ resp = [h \in Handlers |-> NoResponse]

(* a deployment: migrated or not, with or without a GPU, the table empty  *)
(* or (on a host without GPU) holding the story of an earlier request     *)
Init ==
    /\ tableExists \in BOOLEAN
    /\ GPU_AVAILABLE \in BOOLEAN
    /\ db \in {EmptyTable} \cup
              (IF tableExists /\ ~GPU_AVAILABLE
               THEN {DbWrite(EmptyTable, PriorStory)} ELSE {})
    /\ InitHandlers
    /\ page = NoPage

(* ------------------------------------------------------- action helpers *)
Goto(h, label) == pc' = [pc EXCEPT ![h] = label]

(* story.save() of the object s handler h holds *)
Save(h, s) ==
    LET saved == ModelSave(s)
    IN  /\ story' = [story EXCEPT ![h] = saved]
        /\ db' = DbWrite(db, saved)
        /\ log' = [log EXCEPT ![h].saved = Append(@, saved.status)]

SaveLogging(h, s, l) ==
    LET saved == ModelSave(s)
    IN  /\ story' = [story EXCEPT ![h] = saved]
        /\ db' = DbWrite(db, saved)
        /\ log' = [log EXCEPT ![h] = [l EXCEPT !.saved = Append(@, saved.status)]]

(* messages.<level>(request, text), then return redirect(to) *)
Redirect(h, msgs, to) ==
    resp' = [resp EXCEPT ![h] = [redirect |-> to, messages |-> @.messages \o msgs]]

AddMessage(h, msg) ==
    resp' = [resp EXCEPT ![h].messages = Append(@, msg)]

Called(l, name, sent, degraded) ==
    [l EXCEPT !.calls = Append(@, [op |-> name, sent |-> sent, degraded |-> degraded])]

(* the service behind a text call was unavailable, failed or answered "" *)
ChatDegraded(available, o) == ~available \/ o.kind # "ok" \/ o.words = 0

(* no GPU, the pipeline did not load, or the diffusion run raised *)
DiffusionDegraded(available, loaded, run) == ~available \/ ~loaded \/ run = "raise"

(* -------------------------------------------------- GenerateStoryView.post *)
(* The table check, the parameters, the validation and the INSERT.  uuid4  *)
(* draws an id (E.ids); the INSERT of an id the table holds raises         *)
(* IntegrityError, which the outer except of post turns into a redirect.   *)
(* story_length only words the system prompt and is left out.              *)
Post(h, E) ==
    /\ pc[h] = "idle"
    /\ \E raw \in E.prompts, audio_file \in E.audio, image_style \in E.styles, id \in E.ids :
          LET prompt == CleanPrompt(raw)
              created == NewStory(id, prompt, InputMethod(prompt, audio_file))
          IN  /\ req' = [req EXCEPT ![h] = [prompt |-> raw, audio_file |-> audio_file,
                                            image_style |-> image_style]]
              /\ IF ~tableExists
                 THEN /\ Redirect(h, << <<"error", "Database not ready! Please run: python manage.py migrate">> >>, IndexPage)
                      /\ Goto(h, "done")
                      /\ UNCHANGED <<db, story, log>>
                 ELSE IF ~HasInput(prompt, audio_file)
                 THEN /\ Redirect(h, << <<"error", "Please provide either text input or audio file.">> >>, IndexPage)
                      /\ Goto(h, "done")
                      /\ UNCHANGED <<db, story, log>>
                 ELSE IF db[id] # NoStory
                 THEN /\ Redirect(h, << <<"error", "An unexpected error occurred. Please try again.">> >>, IndexPage)
                      /\ Goto(h, "done")
                      /\ UNCHANGED <<db, story, log>>
                 ELSE /\ story' = [story EXCEPT ![h] = created]
                      /\ db' = DbWrite(db, created)
                      /\ log' = [log EXCEPT ![h].saved = Append(@, created.status)]
                      /\ Goto(h, IF audio_file.present THEN "audio" ELSE "start")
                      /\ UNCHANGED resp
    /\ UNCHANGED <<page, tableExists, GPU_AVAILABLE, gen>>

(* _handle_audio_input up to the first save: the size check, the file *)
HandleAudioInput(h) ==
    /\ pc[h] = "audio"
    /\ IF AudioTooLarge(req[h].audio_file.size)
       THEN /\ Save(h, [story[h] EXCEPT !.status = "error",
                           !.error_message = <<"Audio file too large (max 10MB)">>])
            /\ Redirect(h, << <<"error", "Audio file too large">> >>, IndexPage)
            /\ Goto(h, "done")
       ELSE /\ Save(h, [story[h] EXCEPT !.audio_file = TRUE, !.status = "transcribing"])
            /\ Goto(h, "transcribe")
            /\ UNCHANGED resp
    /\ UNCHANGED <<page, tableExists, GPU_AVAILABLE, req, gen>>

(* the rest of _handle_audio_input: check_audio_support, the transcription, *)
(* and the except clause; post returns the redirect when it returns False   *)
TranscribeAudio(h, E) ==
    /\ pc[h] = "transcribe"
    /\ \E support \in E.audio_support, o \in E.transcribe :
          LET r == IF ~support THEN [raised |-> TRUE, val |-> <<>>]
                   ELSE SafeTranscribeAudio(o)
              e == IF ~support THEN "Audio processing not available"
                   ELSE "transcription error"
              checked == Called(log[h], "check_audio_support", 0, ~support)
              l == IF support THEN Called(checked, "transcribe", 0, r.raised) ELSE checked
          IN  IF r.raised
              THEN /\ SaveLogging(h, AudioFailed(story[h], e), l)
                   /\ Redirect(h, << <<"error", "Audio transcription failed">> >>, IndexPage)
                   /\ Goto(h, "done")
              ELSE /\ SaveLogging(h, [story[h] EXCEPT !.transcribed_text = r.val], l)
                   /\ AddMessage(h, <<"success", "Audio transcribed!">>)
                   /\ Goto(h, "start")
    /\ UNCHANGED <<page, tableExists, GPU_AVAILABLE, req, gen>>

(* story.status = 'processing'; story.save() *)
StartProcessing(h) ==
    /\ pc[h] = "start"
    /\ Save(h, [story[h] EXCEPT !.status = "processing"])
    /\ Goto(h, "begin")
    /\ UNCHANGED <<page, tableExists, GPU_AVAILABLE, req, gen, resp>>

(* ------------------------------------- _generate_enhanced_story_content *)
Raise(h, e) ==
    /\ gen' = [gen EXCEPT ![h].exc = e]
    /\ Goto(h, "except")

(* input_text = story.get_input_text(), the check of it, and             *)
(* OllamaStoryGenerator()                                                 *)
BeginGeneration(h, E) ==
    /\ pc[h] = "begin"
    /\ LET input_text == GetInputText(story[h])
       IN  IF NoInputText(input_text)
           THEN /\ gen' = [gen EXCEPT ![h].input_text = input_text,
                                      ![h].exc = "No input text available"]
                /\ Goto(h, "except")
           ELSE \E o \in E.tags :
                   /\ gen' = [gen EXCEPT ![h].input_text = input_text,
                                         ![h].available = CheckOllamaAvailability(o)]
                   /\ Goto(h, StepAfter("begin"))
    /\ UNCHANGED <<page, tableExists, GPU_AVAILABLE, db, req, story, log, resp>>

StoryStep(h, E) ==
    /\ pc[h] = "generate_story"
    /\ \E o \in E.chat :
          LET r == GenerateStory(gen[h].available, o, gen[h].input_text)
          IN  /\ log' = [log EXCEPT ![h] = Called(@, "generate_story", r.sent, ChatDegraded(gen[h].available, o))]
              /\ IF r.raised
                 THEN /\ Raise(h, "generate_story raised")
                      /\ UNCHANGED story
                 ELSE /\ story' = [story EXCEPT ![h].story_text = r.val,
                                      ![h].ai_model_used = <<"Ollama (", "llama3.1:8b", ")">>]
                      /\ Goto(h, StepAfter("generate_story"))
                      /\ UNCHANGED gen
    /\ UNCHANGED <<page, tableExists, GPU_AVAILABLE, db, req, resp>>

CharacterDescriptionStep(h, E) ==
    /\ pc[h] = "generate_character_description"
    /\ \E o \in E.chat, kw \in CharacterKeywords(story[h].story_text) :
          LET r == GenerateCharacterDescription(gen[h].available, o, kw)
          IN  /\ log' = [log EXCEPT ![h] = Called(@, "generate_character_description", r.sent, ChatDegraded(gen[h].available, o))]
              /\ IF r.raised
                 THEN /\ Raise(h, "generate_character_description raised")
                      /\ UNCHANGED story
                 ELSE /\ story' = [story EXCEPT ![h].character_description = r.val]
                      /\ Goto(h, StepAfter("generate_character_description"))
                      /\ UNCHANGED gen
    /\ UNCHANGED <<page, tableExists, GPU_AVAILABLE, db, req, resp>>

SceneDescriptionStep(h, E) ==
    /\ pc[h] = "generate_scene_description"
    /\ \E o \in E.chat, kw \in SceneKeywords(story[h].story_text) :
          LET r == GenerateSceneDescription(gen[h].available, o, kw)
          IN  /\ log' = [log EXCEPT ![h] = Called(@, "generate_scene_description", r.sent, ChatDegraded(gen[h].available, o))]
              /\ IF r.raised
                 THEN /\ Raise(h, "generate_scene_description raised")
                      /\ UNCHANGED story
                 ELSE /\ story' = [story EXCEPT ![h].background_description = r.val]
                      /\ Goto(h, StepAfter("generate_scene_description"))
                      /\ UNCHANGED gen
    /\ UNCHANGED <<page, tableExists, GPU_AVAILABLE, db, req, resp>>

(* GPUImageGenerator(), generate_character_image, character_image.save *)
CharacterImageStep(h, E) ==
    /\ pc[h] = "generate_character_image"
    /\ \E lo \in E.load, ro \in E.run :
          LET ld == LoadPipeline(GPU_AVAILABLE, FALSE, lo)
              r == GenerateCharacterImage(GPU_AVAILABLE, ld.ok, ro)
          IN  /\ log' = [log EXCEPT ![h] = Called(@, "generate_character_image", r.sent, DiffusionDegraded(GPU_AVAILABLE, ld.ok, ro))]
              /\ IF r.raised
                 THEN /\ Raise(h, "generate_character_image raised")
                      /\ UNCHANGED story
                 ELSE /\ story' = [story EXCEPT ![h].character_image = r.val]
                      /\ gen' = [gen EXCEPT ![h].pipeline = ld.pipeline]
                      /\ Goto(h, StepAfter("generate_character_image"))
    /\ UNCHANGED <<page, tableExists, GPU_AVAILABLE, db, req, resp>>

BackgroundImageStep(h, E) ==
    /\ pc[h] = "generate_background_image"
    /\ \E lo \in E.load, ro \in E.run :
          LET ld == LoadPipeline(GPU_AVAILABLE, gen[h].pipeline, lo)
              r == GenerateBackgroundImage(GPU_AVAILABLE, ld.ok, ro)
          IN  /\ log' = [log EXCEPT ![h] = Called(@, "generate_background_image", r.sent, DiffusionDegraded(GPU_AVAILABLE, ld.ok, ro))]
              /\ IF r.raised
                 THEN /\ Raise(h, "generate_background_image raised")
                      /\ UNCHANGED story
                 ELSE /\ story' = [story EXCEPT ![h].background_image = r.val]
                      /\ gen' = [gen EXCEPT ![h].pipeline = ld.pipeline]
                      /\ Goto(h, StepAfter("generate_background_image"))
    /\ UNCHANGED <<page, tableExists, GPU_AVAILABLE, db, req, resp>>

(* compose_images when both images are set, then image_model_used *)
ComposeStep(h, E) ==
    /\ pc[h] = "compose_images"
    /\ \E o \in E.compose :
          LET s == story[h]
              both == s.character_image # NoImage /\ s.background_image # NoImage
          IN  /\ story' = [story EXCEPT
                     ![h].composed_image = IF both THEN ComposeImages(o) ELSE @,
                     ![h].image_model_used = <<"Stable Diffusion (", req[h].image_style, ")">>]
              /\ log' = [log EXCEPT ![h] = IF both THEN Called(@, "compose_images", 0, o # "ok") ELSE @]
    /\ Goto(h, StepAfter("compose_images"))
    /\ UNCHANGED <<page, tableExists, GPU_AVAILABLE, db, req, gen, resp>>

(* cleanup, status = 'completed', generation_time, save *)
MarkCompleted(h) ==
    /\ pc[h] = "completed"
    /\ SaveLogging(h, [story[h] EXCEPT !.status = "completed", !.generation_time = "elapsed"],
                   Called(log[h], "completed", 0, FALSE))
    /\ Goto(h, "respond")
    /\ UNCHANGED <<page, tableExists, GPU_AVAILABLE, req, gen, resp>>

(* except Exception as e: status = 'error', error_message = str(e), save *)
GenerationError(h) ==
    /\ pc[h] = "except"
    /\ Save(h, GenerationFailed(story[h], gen[h].exc))
    /\ Goto(h, "respond")
    /\ UNCHANGED <<page, tableExists, GPU_AVAILABLE, req, gen, resp>>

(* the end of post *)
Respond(h) ==
    /\ pc[h] = "respond"
    /\ Redirect(h, <<MessageAfterGeneration(story[h])>>, RedirectAfterGeneration(story[h]))
    /\ Goto(h, "done")
    /\ UNCHANGED <<page, tableExists, GPU_AVAILABLE, db, req, story, gen, log>>

(* python manage.py migrate creates the table *)
Migrate ==
    /\ ~tableExists
    /\ tableExists' = TRUE
    /\ UNCHANGED <<page, GPU_AVAILABLE, db, pc, req, story, gen, log, resp>>

(* --------------------------------------------------- the read-only views *)
(* GET /: IndexView *)
IndexView ==
    /\ \E recent \in (IF tableExists THEN RecentStories(db) ELSE {{}}) :
          page' = [view |-> "index", context |-> IndexContext(tableExists, recent)]
    /\ UNCHANGED <<tableExists, GPU_AVAILABLE, db, pc, req, story, gen, log, resp>>

(* GET /result/<story_id>/: StoryResultView *)
StoryResultView(story_id) ==
    /\ page' = [view |-> "result", story_id |-> story_id,
                context |-> ResultContext(tableExists, db, story_id)]
    /\ UNCHANGED <<tableExists, GPU_AVAILABLE, db, pc, req, story, gen, log, resp>>

(* GET /status/<story_id>/: GenerationStatusView *)
GenerationStatusView(story_id) ==
    /\ page' = [view |-> "status", story_id |-> story_id,
                response |-> StatusResponse(tableExists, db, story_id)]
    /\ UNCHANGED <<tableExists, GPU_AVAILABLE, db, pc, req, story, gen, log, resp>>

(* ----------------------------------------------------------- environment *)
Transcripts == {<<>>, <<"t">>}

(* every request and every answer of the services the bounds allow *)
FullEnv ==
    [prompts |-> SeqsUpTo(Chars, MaxPromptLen),
     audio |-> {NoAudio, AudioFile(MAX_AUDIO_BYTES), AudioFile(MAX_AUDIO_BYTES + 1)},
     styles |-> {"realistic", "fantasy"},
     ids |-> {i \in Ids : i <= 2},
     audio_support |-> BOOLEAN,
     transcribe |-> [whisper : BOOLEAN, google : BOOLEAN, text : Transcripts],
     tags |-> TagsOutcomes,
     chat |-> ChatOutcomes,
     load |-> LoadOutcomes,
     run |-> RunOutcomes,
     compose |-> ComposeOutcomes]

(* a host without Ollama and without diffusion, serving short requests *)
SmallEnv ==
    [prompts |-> {<<>>, <<"a">>},
     audio |-> {NoAudio, AudioFile(MAX_AUDIO_BYTES)},
     styles |-> {"realistic"},
     ids |-> Ids,
     audio_support |-> {TRUE},
     transcribe |-> {[whisper |-> TRUE, google |-> FALSE, text |-> <<>>]},
     tags |-> {"raise"},
     chat |-> {[kind |-> "raise", words |-> 0]},
     load |-> {"fail"},
     run |-> {"raise"},
     compose |-> {"ok"}]

(* one step of the handler h *)
Serve(h, E) ==
    \/ Post(h, E)
    \/ HandleAudioInput(h)
    \/ TranscribeAudio(h, E)
    \/ StartProcessing(h)
    \/ BeginGeneration(h, E)
    \/ StoryStep(h, E)
    \/ CharacterDescriptionStep(h, E)
    \/ SceneDescriptionStep(h, E)
    \/ CharacterImageStep(h, E)
    \/ BackgroundImageStep(h, E)
    \/ ComposeStep(h, E)
    \/ MarkCompleted(h)
    \/ GenerationError(h)
    \/ Respond(h)

(* one request, over the full environment *)
Next == Migrate \/ Serve(1, FullEnv)

Spec == Init /\ [][Next]_vars

(* NumHandlers requests served concurrently, their steps interleaved *)
InitConcurrent ==
    /\ tableExists \in BOOLEAN
    /\ GPU_AVAILABLE = FALSE
    /\ db = EmptyTable
    /\ InitHandlers
    /\ page = NoPage

NextConcurrent == Migrate \/ \E h \in Handlers : Serve(h, SmallEnv)

SpecConcurrent == InitConcurrent /\ [][NextConcurrent]_vars

(* one request on a host without Ollama and GPU, and the read-only views  *)
(* answering at any moment of it                                          *)
InitViews ==
    /\ tableExists \in BOOLEAN
    /\ GPU_AVAILABLE = FALSE
    /\ db \in {EmptyTable} \cup
              (IF tableExists THEN {DbWrite(EmptyTable, PriorStory)} ELSE {})
    /\ InitHandlers
    /\ page = NoPage

NextViews ==
    \/ Migrate
    \/ Serve(1, SmallEnv)
    \/ IndexView
    \/ \E story_id \in Ids : StoryResultView(story_id)
    \/ \E story_id \in Ids : GenerationStatusView(story_id)

SpecViews == InitViews /\ [][NextViews]_vars

(* ================================================================ claims *)
IsPrefix(a, b) == Len(a) <= Len(b) /\ a = SubSeq(b, 1, Len(a))
Ops(calls) == [i \in DOMAIN calls |-> calls[i].op]
TextOps == {"generate_story", "generate_character_description", "generate_scene_description"}
ImageOps == {"generate_character_image", "generate_background_image"}
IsTextCall(c) == c.op \in TextOps
IsImageCall(c) == c.op \in ImageOps
IsPipelineCall(c) == c.op \in TextOps \cup ImageOps \cup {"compose_images", "completed"}

RECURSIVE SumSent(_)
SumSent(calls) == IF calls = <<>> THEN 0 ELSE Head(calls).sent + SumSent(Tail(calls))

TimesCalled(calls, op) == Cardinality({i \in DOMAIN calls : calls[i].op = op})

(* what an operation stored on the object *)
ResultField(s, op) ==
    CASE op = "generate_story" -> s.story_text
      [] op = "generate_character_description" -> s.character_description
      [] op = "generate_scene_description" -> s.background_description
      [] op = "generate_character_image" -> s.character_image
      [] op = "generate_background_image" -> s.background_image

(* C1: within one POST the generation steps run in the order story text,   *)
(* character description, scene description, character image, background   *)
(* image, scene composition, each after the previous one returned and none *)
(* twice, and the status is 'completed' only after all of them.            *)
C1_ExpectedOrder ==
    <<"generate_story", "generate_character_description", "generate_scene_description",
      "generate_character_image", "generate_background_image", "compose_images", "completed">>

C1_StepsInOrder ==
    \A h \in Handlers :
        LET ran == Ops(SelectSeq(log[h].calls, IsPipelineCall))
        IN  /\ IsPrefix(ran, C1_ExpectedOrder)
            /\ story[h].status = "completed" <=> ran = C1_ExpectedOrder
            /\ pc[h] \in {"respond", "done"} /\ story[h].status = "completed"
                   => db[story[h].id].status = "completed"

C1_Witness ==
    \E h \in Handlers :
        /\ pc[h] = "done"
        /\ story[h].status = "completed"
        /\ Ops(SelectSeq(log[h].calls, IsPipelineCall)) = C1_ExpectedOrder

(* C2: every record persisted with status 'completed' has a non-empty      *)
(* story_text, character_description and background_description, the three *)
(* images, and non-empty ai_model_used and image_model_used.               *)
C2_CompletedRecordIsFull ==
    \A id \in Ids :
        db[id].status = "completed" =>
            /\ db[id].story_text.words > 0
            /\ db[id].character_description.words > 0
            /\ db[id].background_description.words > 0
            /\ db[id].character_image # ""
            /\ db[id].background_image # ""
            /\ db[id].composed_image # ""
            /\ db[id].ai_model_used # <<>>
            /\ db[id].image_model_used # <<>>

C2_Witness ==
    \E h \in Handlers :
        /\ story[h].id # NoId
        /\ db[story[h].id].status = "completed"
        /\ db[story[h].id].story_text.src = "llm"
        /\ db[story[h].id].character_description.src = "fallback"

(* C3: generate_story, generate_character_description and                  *)
(* generate_scene_description never raise and always return a non-empty    *)
(* string; when Ollama is unavailable, the call fails or the reply is      *)
(* empty they return the template fallback, and no story ends in status    *)
(* 'error' because of them.                                                *)
C3_TextOpRaised ==
    {"generate_story raised", "generate_character_description raised",
     "generate_scene_description raised"}

C3_TextOpsNeverFail ==
    \A h \in Handlers :
        /\ gen[h].exc \notin C3_TextOpRaised
        /\ \A i \in DOMAIN log[h].calls :
              LET c == log[h].calls[i]
              IN  c.op \in TextOps =>
                      /\ ResultField(story[h], c.op).words > 0
                      /\ c.degraded => ResultField(story[h], c.op).src = "fallback"
        /\ story[h].status = "error" =>
              /\ story[h].error_message \notin {<<e>> : e \in C3_TextOpRaised}
              /\ SelectSeq(log[h].calls, IsTextCall) = <<>>

C3_Witness ==
    \E h \in Handlers :
        /\ story[h].status = "completed"
        /\ gen[h].available
        /\ \A i \in DOMAIN log[h].calls :
              log[h].calls[i].op \in TextOps =>
                  log[h].calls[i].degraded /\ log[h].calls[i].sent = 1
        /\ story[h].story_text.src = "fallback"

(* C4: generate_character_image and generate_background_image never raise  *)
(* and always return image bytes; without a GPU, when the pipeline fails   *)
(* to load or when the diffusion run throws they return the placeholder,   *)
(* and no story ends in status 'error' because of them.                    *)
C4_ImageOpRaised ==
    {"generate_character_image raised", "generate_background_image raised"}

C4_Placeholder ==
    [generate_character_image |-> "character_placeholder",
     generate_background_image |-> "background_placeholder"]

C4_ImageOpsNeverFail ==
    \A h \in Handlers :
        /\ gen[h].exc \notin C4_ImageOpRaised
        /\ \A i \in DOMAIN log[h].calls :
              LET c == log[h].calls[i]
              IN  c.op \in ImageOps =>
                      /\ ResultField(story[h], c.op) # ""
                      /\ c.degraded => ResultField(story[h], c.op) = C4_Placeholder[c.op]
                      /\ ~GPU_AVAILABLE => c.degraded
        /\ story[h].status = "error" =>
              /\ story[h].error_message \notin {<<e>> : e \in C4_ImageOpRaised}
              /\ SelectSeq(log[h].calls, IsImageCall) = <<>>

C4_Witness ==
    \E h \in Handlers :
        /\ story[h].status = "completed"
        /\ GPU_AVAILABLE
        /\ \E i \in DOMAIN log[h].calls :
              /\ log[h].calls[i].op = "generate_character_image"
              /\ log[h].calls[i].degraded
              /\ log[h].calls[i].sent = 1
        /\ story[h].character_image = "character_placeholder"
        /\ story[h].background_image = "gpu_background"

(* C5: no retry: each text operation sends at most one chat request and    *)
(* each image operation runs the diffusion pipeline at most once, also     *)
(* when the call fails, so one POST makes at most three chat requests and  *)
(* at most two diffusion runs.                                             *)
C5_NoRetry ==
    \A h \in Handlers :
        LET calls == log[h].calls
        IN  /\ \A i \in DOMAIN calls :
                  /\ calls[i].sent <= 1
                  /\ calls[i].op \notin TextOps \cup ImageOps => calls[i].sent = 0
            /\ \A op \in TextOps \cup ImageOps : TimesCalled(calls, op) <= 1
            /\ SumSent(SelectSeq(calls, IsTextCall)) <= 3
            /\ SumSent(SelectSeq(calls, IsImageCall)) <= 2

C5_Witness ==
    \E h \in Handlers :
        LET calls == log[h].calls
        IN  /\ SumSent(SelectSeq(calls, IsTextCall)) = 3
            /\ SumSent(SelectSeq(calls, IsImageCall)) = 2
            /\ \E i \in DOMAIN calls :
                  calls[i].op \in TextOps /\ calls[i].degraded /\ calls[i].sent = 1
            /\ \E i \in DOMAIN calls :
                  calls[i].op \in ImageOps /\ calls[i].degraded /\ calls[i].sent = 1

(* C6: for any interleaving of concurrent POSTs each request creates its   *)
(* own record with a distinct id, every write of a handler goes to the     *)
(* record that handler created, and the final status and content of a      *)
(* record are those its own handler computed: requests with the same       *)
(* input end with the same status and content.                             *)
C6_OwnRecords ==
    /\ \A h1, h2 \in Handlers :
          h1 # h2 /\ story[h1].id # NoId /\ story[h2].id # NoId
              => story[h1].id # story[h2].id
    /\ \A h \in Handlers :
          pc[h] = "done" /\ story[h].id # NoId => db[story[h].id] = story[h]
    /\ \A h1, h2 \in Handlers :
          /\ pc[h1] = "done" /\ pc[h2] = "done"
          /\ story[h1].id # NoId /\ story[h2].id # NoId
          /\ req[h1] = req[h2]
          => [story[h1] EXCEPT !.id = NoId] = [story[h2] EXCEPT !.id = NoId]

C6_WritesOwn ==
    \A id \in Ids :
        db'[id] # db[id] =>
            \E h \in Handlers :
                /\ pc'[h] # pc[h]
                /\ story'[h].id = id
                /\ db'[id] = story'[h]
                /\ \A other \in Ids \ {id} : db'[other] = db[other]

C6_Isolation == []C6_OwnRecords /\ [][C6_WritesOwn]_vars

C6_Witness ==
    \E h1, h2 \in Handlers :
        /\ h1 # h2
        /\ pc[h1] = "done" /\ pc[h2] = "done"
        /\ story[h1].id # NoId /\ story[h2].id # NoId
        /\ db[story[h1].id].status = "completed"
        /\ db[story[h2].id].status = "error"

(* C7 (as amended): a POST whose prompt is empty or whitespace-only and    *)
(* that carries no audio file creates no record and redirects to the index *)
(* page, with the error 'Please provide either text input or audio file.'  *)
(* when the story table exists and with the database-not-ready error when  *)
(* it does not.                                                            *)
C7_Blank(prompt) == \A i \in DOMAIN prompt : prompt[i] = " "

C7_BlankRequest(h) ==
    /\ pc[h] = "idle" /\ pc'[h] # "idle"
    /\ C7_Blank(req'[h].prompt)
    /\ ~req'[h].audio_file.present

C7_Rejected ==
    \A h \in Handlers :
        C7_BlankRequest(h) =>
            /\ pc'[h] = "done"
            /\ story'[h] = NoStory
            /\ db' = db
            /\ resp'[h].redirect = [to |-> "index", story_id |-> NoId]
            /\ resp'[h].messages =
                  IF tableExists
                  THEN << <<"error", "Please provide either text input or audio file.">> >>
                  ELSE << <<"error", "Database not ready! Please run: python manage.py migrate">> >>

C7_BlankRequestRejected == [][C7_Rejected]_vars

C7_Witness ==
    \E h \in Handlers :
        /\ pc[h] = "done"
        /\ req[h].prompt = <<" ", " ">>
        /\ ~req[h].audio_file.present
        /\ story[h] = NoStory
        /\ resp[h].messages = << <<"error", "Please provide either text input or audio file.">> >>

(* C7 as claimed: every such POST is answered with the error 'Please       *)
(* provide either text input or audio file.'                               *)
C7_Original ==
    \A h \in Handlers :
        pc[h] = "done" /\ C7_Blank(req[h].prompt) /\ ~req[h].audio_file.present =>
            /\ story[h] = NoStory
            /\ resp[h].redirect = [to |-> "index", story_id |-> NoId]
            /\ resp[h].messages = << <<"error", "Please provide either text input or audio file.">> >>

(* C8: an audio file of more than 10*1024*1024 bytes puts the record in    *)
(* status 'error' with error_message 'Audio file too large (max 10MB)',    *)
(* the file is not stored, nothing is transcribed or generated and the     *)
(* request redirects to the index page, with or without a prompt; a file   *)
(* of exactly 10 MB is accepted.                                           *)
C8_TooLargeMessage == <<"Audio file too large (max 10MB)">>

C8_OversizeAudioRejected ==
    \A h \in Handlers :
        story[h].id # NoId /\ req[h].audio_file.present /\ pc[h] # "audio" =>
            IF req[h].audio_file.size > 10485760
            THEN /\ pc[h] = "done"
                 /\ story[h].status = "error"
                 /\ story[h].error_message = C8_TooLargeMessage
                 /\ ~story[h].audio_file
                 /\ db[story[h].id] = story[h]
                 /\ log[h].calls = <<>>
                 /\ resp[h].redirect = [to |-> "index", story_id |-> NoId]
            ELSE /\ story[h].error_message # C8_TooLargeMessage
                 /\ story[h].audio_file

C8_Witness ==
    \E h \in Handlers :
        /\ pc[h] = "done"
        /\ req[h].audio_file.size = 10485761
        /\ req[h].prompt = <<"a">>
        /\ story[h].id # NoId
        /\ db[story[h].id].status = "error"
        /\ db[story[h].id].error_message = C8_TooLargeMessage

(* C9: when audio handling fails (the audio libraries are missing, the     *)
(* transcription raises) the record ends in status 'error' with an         *)
(* error_message starting with 'Audio transcription failed: ', its status  *)
(* never becomes 'processing', no story or image generator is invoked and  *)
(* the request redirects to the index page, with or without a prompt.      *)
C9_AudioFailed(h) ==
    \E i \in DOMAIN log[h].calls :
        /\ log[h].calls[i].op \in {"check_audio_support", "transcribe"}
        /\ log[h].calls[i].degraded

C9_AudioFailureEndsInError ==
    \A h \in Handlers :
        C9_AudioFailed(h) =>
            /\ pc[h] = "done"
            /\ story[h].status = "error"
            /\ Len(story[h].error_message) = 2
            /\ story[h].error_message[1] = "Audio transcription failed: "
            /\ db[story[h].id] = story[h]
            /\ \A i \in DOMAIN log[h].saved : log[h].saved[i] # "processing"
            /\ SelectSeq(log[h].calls, IsPipelineCall) = <<>>
            /\ resp[h].redirect = [to |-> "index", story_id |-> NoId]

C9_Witness ==
    \E h \in Handlers :
        /\ pc[h] = "done"
        /\ req[h].prompt = <<"a">>
        /\ \E i \in DOMAIN log[h].calls :
              log[h].calls[i].op = "transcribe" /\ log[h].calls[i].degraded
        /\ db[story[h].id].status = "error"

(* C10: post redirects to the result page of the story if and only if the  *)
(* record's status is 'completed' once the pipeline has run; after a       *)
(* validation failure, an audio failure, a generation error or an          *)
(* unexpected exception it redirects to the index page.                    *)
C10_RedirectByStatus ==
    \A h \in Handlers :
        /\ pc[h] # "done" => resp[h].redirect.to = "none"
        /\ pc[h] = "done" =>
              /\ resp[h].redirect.to = "result" <=> story[h].status = "completed"
              /\ resp[h].redirect.to = "result" => resp[h].redirect.story_id = story[h].id
              /\ resp[h].redirect.to # "result"
                     => resp[h].redirect = [to |-> "index", story_id |-> NoId]

C10_Witness ==
    \E h \in Handlers :
        /\ pc[h] = "done"
        /\ story[h].status = "completed"
        /\ resp[h].redirect = [to |-> "result", story_id |-> story[h].id]

(* p is raw without its leading and trailing whitespace *)
C11_StrippedOf(raw, p) ==
    /\ \E i \in 0 .. Len(raw) :
          /\ i + Len(p) <= Len(raw)
          /\ \A k \in 1 .. Len(raw) :
                IF k > i /\ k <= i + Len(p)
                THEN raw[k] = p[k - i]
                ELSE raw[k] \in Whitespace
    /\ p # <<>> => p[1] \notin Whitespace /\ p[Len(p)] \notin Whitespace

(* C11: the input_method stored on a newly created record is 'text'        *)
(* exactly when a non-empty prompt and no audio file were submitted,       *)
(* 'audio' exactly when an audio file and no prompt were submitted, and    *)
(* 'both' exactly when both were submitted; the stored prompt is the       *)
(* submitted prompt with surrounding whitespace stripped (a prompt of      *)
(* whitespace only counts as no prompt).                                   *)
C11_InputMethodAndPrompt ==
    \A h \in Handlers :
        story[h].id # NoId =>
            LET row == db[story[h].id]
                audio == req[h].audio_file.present
                text == row.prompt # <<>>
            IN  /\ row.prompt = story[h].prompt
                /\ row.input_method = story[h].input_method
                /\ C11_StrippedOf(req[h].prompt, row.prompt)
                /\ row.input_method \in {"text", "audio", "both"}
                /\ row.input_method = "text" <=> (text /\ ~audio)
                /\ row.input_method = "audio" <=> (audio /\ ~text)
                /\ row.input_method = "both" <=> (audio /\ text)

C11_Witness ==
    \E h \in Handlers :
        /\ story[h].id # NoId
        /\ req[h].prompt = <<" ", "a">>
        /\ req[h].audio_file.present
        /\ db[story[h].id].input_method = "both"
        /\ db[story[h].id].prompt = <<"a">>

(* handler h has run input_text = story.get_input_text() *)
C12_HasReadInput(h) ==
    /\ pc[h] # "begin"
    /\ \E i \in DOMAIN log[h].saved : log[h].saved[i] = "processing"

(* C12: get_input_text returns the transcribed text when input_method is   *)
(* 'audio', the prompt followed by a space and the transcribed text, with  *)
(* surrounding whitespace stripped, when it is 'both', and the prompt for  *)
(* any other input_method.                                                 *)
C12_InputText ==
    \A h \in Handlers :
        C12_HasReadInput(h) =>
            LET s == story[h]
                input_text == gen[h].input_text
            IN  /\ s.input_method = "audio" => input_text = s.transcribed_text
                /\ s.input_method = "both" =>
                      C11_StrippedOf(s.prompt \o <<" ">> \o s.transcribed_text, input_text)
                /\ s.input_method \notin {"audio", "both"} => input_text = s.prompt

(* prompt and audio, and the transcript came back empty: the joined text   *)
(* ends with the space, which the strip removes                            *)
C12_Witness ==
    \E h \in Handlers :
        /\ C12_HasReadInput(h)
        /\ story[h].input_method = "both"
        /\ story[h].prompt = <<"a">>
        /\ story[h].transcribed_text = <<>>
        /\ gen[h].input_text = <<"a">>

(* C13: when the input text of a record is empty (an audio-only request    *)
(* whose transcription is the empty string), the pipeline ends with status *)
(* 'error' and error_message 'No input text available', and no story,      *)
(* description or image generator operation is invoked.                    *)
C13_EmptyInputEndsInError ==
    \A h \in Handlers :
        (C12_HasReadInput(h) /\ gen[h].input_text = <<>>) =>
            /\ pc[h] \in {"except", "respond", "done"}
            /\ \A i \in DOMAIN log[h].calls : ~IsPipelineCall(log[h].calls[i])
            /\ pc[h] \in {"respond", "done"} =>
                  /\ story[h].status = "error"
                  /\ story[h].error_message = <<"No input text available">>
                  /\ db[story[h].id] = story[h]
                  /\ log[h].saved[Len(log[h].saved)] = "error"

C13_Witness ==
    \E h \in Handlers :
        /\ pc[h] = "done"
        /\ story[h].id # NoId
        /\ story[h].input_method = "audio"
        /\ story[h].transcribed_text = <<>>
        /\ gen[h].input_text = <<>>
        /\ db[story[h].id].status = "error"
        /\ db[story[h].id].error_message = <<"No input text available">>

(* every stored row with a story carries the word count of that story *)
C14_RowsCounted ==
    \A id \in Ids :
        (db[id] # NoStory /\ db[id].story_text.words > 0) =>
            db[id].story_word_count = db[id].story_text.words

(* a step of handler h that saves its object *)
C14_SaveStep ==
    \A h \in Handlers :
        Len(log'[h].saved) > Len(log[h].saved) =>
            /\ db'[story'[h].id] = story'[h]
            /\ IF story'[h].story_text.words > 0
               THEN story'[h].story_word_count = story'[h].story_text.words
               ELSE story'[h].story_word_count = story[h].story_word_count

(* C14: after every save of a StoryGeneration whose story_text is          *)
(* non-empty, story_word_count equals the number of whitespace-separated   *)
(* words of story_text; a save with an empty story_text leaves             *)
(* story_word_count unchanged.                                             *)
C14_WordCountOnSave == []C14_RowsCounted /\ [][C14_SaveStep]_vars

C14_Witness ==
    \E h \in Handlers :
        /\ pc[h] = "done"
        /\ story[h].id # NoId
        /\ story[h].status = "completed"
        /\ story[h].story_text = Text("llm", StoryMinWords + 1)
        /\ db[story[h].id].story_word_count = StoryMinWords + 1

(* a POST served while the table is missing: no object, no row, no save,   *)
(* no call of the transcription or of a generator, the redirect to index   *)
C15_PostWithoutTable ==
    \A h \in Handlers :
        (~tableExists /\ pc[h] = "idle" /\ pc'[h] # "idle") =>
            /\ pc'[h] = "done"
            /\ db' = db
            /\ \A id \in Ids : db'[id] = NoStory
            /\ story'[h] = NoStory
            /\ log'[h].calls = <<>>
            /\ log'[h].saved = <<>>
            /\ resp'[h].redirect = [to |-> "index", story_id |-> NoId]

(* a GET of the result or index view answered while the table is missing *)
C15_ViewWithoutTable ==
    (~tableExists /\ page' # page) =>
        /\ page'.view = "result" => page'.context.story = NoStory
        /\ page'.view = "index" =>
              /\ page'.context.recent_stories = {}
              /\ page'.context.database_not_ready

(* C15: while the story table does not exist, a POST to GenerateStoryView  *)
(* creates no record, starts no transcription or generation and redirects  *)
(* to the index page; StoryResultView renders with story = None; IndexView *)
(* renders with an empty recent_stories list and database_not_ready set.   *)
C15_TableMissing == [][C15_PostWithoutTable /\ C15_ViewWithoutTable]_vars

C15_Witness ==
    /\ ~tableExists
    /\ \E h \in Handlers :
          /\ pc[h] = "done"
          /\ req[h].prompt = <<"a">>
          /\ resp[h].redirect = [to |-> "index", story_id |-> NoId]
    /\ page.view = "index"
    /\ page.context.database_not_ready
    /\ page.context.recent_stories = {}

(* C16: for an existing story, GenerationStatusView returns the record's   *)
(* current status, a 'completed' flag that is true if and only if the      *)
(* status is 'completed', the record's generation_time and a word_count    *)
(* equal to its story_word_count.                                          *)
C16_StatusOfRecord ==
    (page' # page /\ page'.view = "status" /\ db[page'.story_id] # NoStory) =>
        LET row == db[page'.story_id]
            json == page'.response.json
        IN  /\ page'.response.code = 200
            /\ DOMAIN json = {"status", "completed", "generation_time", "word_count"}
            /\ json.status = row.status
            /\ json.completed <=> row.status = "completed"
            /\ json.generation_time = row.generation_time
            /\ json.word_count = row.story_word_count

C16_StatusReportsRecord == [][C16_StatusOfRecord]_vars

(* the status of a request another client polls after it failed *)
C16_Witness ==
    /\ page.view = "status"
    /\ page.response.code = 200
    /\ page.response.json.status = "error"
    /\ ~page.response.json.completed
    /\ db[page.story_id].status = "error"

====
